---- MODULE Spec2Model ----
(***************************************************************************)
(* RestartableResultReader (go/vt/worker/restartable_result_reader.go) and *)
(* Wrangler.VDiff2 (go/vt/wrangler/vdiff2.go).                             *)
(*                                                                         *)
(* Spec      : one reader, from construction through Next, the retry and   *)
(*             failover protocol of nextWithRetries, and Close.            *)
(* SpecQuery : generateQuery / greaterThanTupleWhereClause as pure         *)
(*             functions over all bounded inputs.                          *)
(* SpecVDiff : the per-target fan-out of VDiff2.                           *)
(***************************************************************************)
EXTENDS Integers, Sequences, FiniteSets, TLC

\* ------------------------------------------------------------------ bounds
\* Faults the environment injects in one behaviour of Spec (provider errors,
\* dial errors, stream-start errors, receive errors).
MaxFaults == 3
\* Largest number of rows one Recv returns.
MaxBatch == 2
\* Calls of Close the caller makes.
MaxCloseCalls == 2
\* Largest primary-key value of the pure-function inputs of SpecQuery.
MaxVal == 2
\* Target shards of the VDiff2 fan-out.
NumTargets == 3

\* ------------------------------------------------------------- data model
\* sqltypes.NULL: chunk.start / chunk.end for which IsNull() is true.
NULL == -1

\* td.Columns, ordered primary key first, and td.Name.
Columns == <<"a", "b", "c">>
TableName == "t"

\* td.PrimaryKeyColumns for a table with n primary-key columns.
PrimaryKeyColumns(n) == SubSeq(Columns, 1, n)

\* Position of a column in a row.
ColIdx(c) == CHOOSE i \in 1..Len(Columns) : Columns[i] = c

\* sqlescape.EscapeID: the identifier between backticks.
EscapeID(c) == <<"BACKTICK", c, "BACKTICK">>

\* escapeAll: EscapeID over a list of identifiers.
escapeAll(cols) == [i \in 1..Len(cols) |-> EscapeID(cols[i])]

\* The identifier an escaped identifier names (what MySQL reads back).
UnescapeID(e) == e[2]

\* -------------------------------------------------------- query synthesis
\* A clause is [lhs, op, rhs, tuple]: the escaped columns, the operator, the
\* encoded values, and whether both sides are written in parentheses.

\* Variant of FirstColumnClause written with > in place of >=.
FirstColumnClauseGt(columns, row) ==
    [lhs |-> <<EscapeID(columns[1])>>, op |-> ">", rhs |-> <<row[1]>>, tuple |-> FALSE]

\* The first clause of a multi-column resume predicate: col1 >= v1.
FirstColumnClause(columns, row) ==
    [lhs |-> <<EscapeID(columns[1])>>, op |-> ">=", rhs |-> <<row[1]>>, tuple |-> FALSE]

\* The comparison of the column list with the value list.
TupleClause(columns, row) ==
    [lhs   |-> escapeAll(columns),
     op    |-> ">",
     rhs   |-> [i \in 1..Len(columns) |-> row[i]],
     tuple |-> Len(columns) > 1]

greaterThanTupleWhereClause(columns, row) ==
    (IF Len(columns) > 1 THEN <<FirstColumnClause(columns, row)>> ELSE <<>>)
        \o <<TupleClause(columns, row)>>

\* The chunk-start clause of the initial query.
StartClause(pk, ch) ==
    [lhs |-> <<EscapeID(pk[1])>>, op |-> ">=", rhs |-> <<ch.start>>, tuple |-> FALSE]

\* The chunk-end clause.
EndClause(pk, ch) ==
    [lhs |-> <<EscapeID(pk[1])>>, op |-> "<", rhs |-> <<ch.end>>, tuple |-> FALSE]

\* Variant of LowerClauses that keeps the chunk-start clause on a restart.
LowerClausesKeepStart(pk, ch, lr) ==
    (IF ch.start # NULL THEN <<StartClause(pk, ch)>> ELSE <<>>)
        \o (IF lr # <<>> THEN greaterThanTupleWhereClause(pk, lr) ELSE <<>>)

\* The lower-bound clauses: chunk start for the initial query, the resume
\* predicate for a restart (lr = <<>> is a nil lastRow).
LowerClauses(pk, ch, lr) ==
    IF lr = <<>>
    THEN IF ch.start # NULL THEN <<StartClause(pk, ch)>> ELSE <<>>
    ELSE greaterThanTupleWhereClause(pk, lr)

\* Variant of UpperClauses: the end of the chunk bounds only the initial query.
UpperClausesInitialOnly(pk, ch, lr) ==
    IF ch.end # NULL /\ lr = <<>> THEN <<EndClause(pk, ch)>> ELSE <<>>

UpperClauses(pk, ch, lr) ==
    IF ch.end # NULL THEN <<EndClause(pk, ch)>> ELSE <<>>

\* The query text, as its parts: select list, table, whether the WHERE
\* keyword is written, the clauses joined by AND, and the ORDER BY list
\* (<<>> when ORDER BY is not written).
generateQuery(pk, ch, lr) ==
    LET clauses == LowerClauses(pk, ch, lr) \o UpperClauses(pk, ch, lr)
    IN  [select  |-> escapeAll(Columns),
         from    |-> EscapeID(TableName),
         where   |-> Len(clauses) > 0,
         clauses |-> clauses,
         orderBy |-> IF Len(pk) > 0 THEN escapeAll(pk) ELSE <<>>]

\* ----------------------------------------------- how MySQL reads a query
\* Value of an escaped column in a row.
ColVal(row, e) == row[ColIdx(UnescapeID(e))]

\* MySQL row comparison, short form: (a, b) > (x, y) is
\* (a > x) OR ((a = x) AND (b > y)), and so on for longer rows.
RECURSIVE RowGreater(_, _)
RowGreater(l, r) ==
    IF Len(l) = 0 \/ Len(r) = 0 THEN FALSE
    ELSE \/ l[1] > r[1]
         \/ l[1] = r[1] /\ RowGreater(Tail(l), Tail(r))

EvalClause(cl, row) ==
    LET l == [i \in 1..Len(cl.lhs) |-> ColVal(row, cl.lhs[i])]
    IN  IF cl.tuple
        THEN RowGreater(l, cl.rhs)
        ELSE CASE cl.op = ">=" -> l[1] >= cl.rhs[1]
               [] cl.op = "<"  -> l[1] < cl.rhs[1]
               [] cl.op = ">"  -> l[1] > cl.rhs[1]

EvalWhere(q, row) ==
    q.where => \A i \in 1..Len(q.clauses) : EvalClause(q.clauses[i], row)

\* row1 sorts before row2 under ORDER BY cols.
OrderLess(cols, row1, row2) ==
    RowGreater([i \in 1..Len(cols) |-> ColVal(row2, cols[i])],
               [i \in 1..Len(cols) |-> ColVal(row1, cols[i])])

RECURSIVE SortRows(_, _)
SortRows(S, cols) ==
    IF S = {} THEN <<>>
    ELSE LET m == CHOOSE x \in S : \A y \in S \ {x} : OrderLess(cols, x, y)
         IN  <<m>> \o SortRows(S \ {m}, cols)

\* The fixed table the tablets serve, for one and for two primary-key columns.
TableRows(n) ==
    IF n = 1
    THEN {<<0, 3, 0>>, <<1, 2, 1>>, <<2, 0, 0>>, <<3, 1, 1>>}
    ELSE {<<0, 1, 0>>, <<1, 0, 1>>, <<1, 2, 0>>, <<2, 1, 1>>, <<3, 0, 0>>}

\* The rows a tablet streams for a query: those the WHERE admits, in ORDER BY order.
ExecQuery(q, n) ==
    SortRows({r \in TableRows(n) : EvalWhere(q, r)}, q.orderBy)

\* ------------------------------------------------------------------ state
VARIABLES
    pc,                   \* where the reader's caller or the running method stands
    npk,                  \* len(td.PrimaryKeyColumns)
    chunk,                \* r.chunk: [start, end]
    allowMultipleRetries, \* r.allowMultipleRetries
    query,                \* r.query
    tablet,               \* r.tablet: 0 is nil, else the handle the provider gave
    conn,                 \* r.conn: 0 is nil, else the connection dialled to that handle
    fields,               \* r.fields # nil
    output,               \* r.output: [st, rows], st "nil", "open" or "broken"
    lastRow,              \* r.lastRow: <<>> is nil
    attempt,              \* the local attempt of tryToConnect / nextWithRetries
    retryable,            \* the local retryable
    err,                  \* the local err: "nil" or what failed
    ctxErr,               \* r.ctx.Err(): "nil", "Canceled", "DeadlineExceeded"
    retryCtxErr,          \* retryCtx.Err() of the running nextWithRetries
    ret,                  \* what the last call returned to the caller
    delivered,            \* every row Next has returned so far, in order
    faults,               \* failures injected so far
    stats,                \* the stats counters
    tpReturns,            \* per handle obtained from tp.getTablet: calls of tp.returnTablet
    connCloses,           \* per handle: calls of conn.Close on its connection
    closeCalls,           \* calls of Close made by the caller
    run,                  \* the running (or last) nextWithRetries: what it has done
    vpc,                  \* VDiff2: where each target's callback stands
    vcall,                \* VDiff2: where VDiff2 itself stands
    mu,                   \* output.mu: 0 unlocked, else the target holding it
    Responses,            \* output.Responses
    vlocal,               \* each callback's (resp, err)
    outputErr,            \* output.Err
    tsErr,                \* err of buildTrafficSwitcher
    vret                  \* what VDiff2 returned

readerVars == <<pc, npk, chunk, allowMultipleRetries, query, tablet, conn, fields,
                output, lastRow, attempt, retryable, err, ctxErr, retryCtxErr, ret,
                delivered, faults, stats, tpReturns, connCloses, closeCalls, run>>
vdiffVars == <<vpc, vcall, mu, Responses, vlocal, outputErr, tsErr, vret>>
vars == <<readerVars, vdiffVars>>

Targets == 1..NumTargets

NilStream == [st |-> "nil", rows |-> <<>>]
NoRet == [kind |-> "none", err |-> "nil", via |-> "none"]
NoRun == [gets |-> 0, starts |-> 0, sleeps |-> 0, gotAt |-> 0, entryTablet |-> 0]
NoQuery == generateQuery(<<>>, [start |-> NULL, end |-> NULL], <<>>)

\* The VDiff2 variables while the reader runs, and the reader's while VDiff2 runs.
VDiffIdle ==
    /\ vpc = [t \in Targets |-> "idle"]
    /\ vcall = "idle"
    /\ mu = 0
    /\ Responses = [t \in Targets |-> [set |-> FALSE, resp |-> 0]]
    /\ vlocal = [t \in Targets |-> [resp |-> 0, err |-> FALSE]]
    /\ outputErr = FALSE
    /\ tsErr = FALSE
    /\ vret = [output |-> FALSE, err |-> FALSE]

\* A reader's fields and the bookkeeping around it, before anything ran.
ReaderRest ==
    /\ query = NoQuery
    /\ tablet = 0
    /\ conn = 0
    /\ fields = FALSE
    /\ output = NilStream
    /\ attempt = 0
    /\ retryable = FALSE
    /\ err = "nil"
    /\ ctxErr = "nil"
    /\ retryCtxErr = "nil"
    /\ ret = NoRet
    /\ delivered = <<>>
    /\ faults = 0
    /\ stats = [retryCount |-> 0, queryStarted |-> 0, queryErrors |-> 0,
                restartsSameTablet |-> 0, restartsDifferentTablet |-> 0]
    /\ tpReturns = <<>>
    /\ connCloses = <<>>
    /\ closeCalls = 0
    /\ run = NoRun

ReaderZero == ReaderRest /\ lastRow = <<>>

\* NewRestartableResultReader: the struct literal, before tryToConnect runs.
Init ==
    /\ ReaderZero
    /\ pc = "ttc_getTablet"
    /\ npk \in {1, 2}
    /\ chunk \in [start : {NULL, 1}, end : {NULL, 3}]
    /\ allowMultipleRetries \in BOOLEAN
    /\ VDiffIdle

\* ------------------------------------------------------------ environment
\* A failure the environment injects counts against MaxFaults.
Inject(bad) ==
    /\ bad => faults < MaxFaults
    /\ faults' = IF bad THEN faults + 1 ELSE faults

Min(a, b) == IF a < b THEN a ELSE b

BrokenStream == [st |-> "broken", rows |-> <<>>]

\* What one Recv on a stream can return: some rows off the front, end of
\* stream once the rows are out, or an error that breaks the stream. A broken
\* stream only returns errors.
RecvOutcomes(s) ==
    IF s.st = "broken"
    THEN {[kind |-> "error", rows |-> <<>>, fault |-> FALSE, after |-> s]}
    ELSE {[kind  |-> "rows",
           rows  |-> SubSeq(s.rows, 1, k),
           fault |-> FALSE,
           after |-> [st |-> "open", rows |-> SubSeq(s.rows, k + 1, Len(s.rows))]]
             : k \in 0..Min(MaxBatch, Len(s.rows))}
         \cup (IF Len(s.rows) = 0
               THEN {[kind |-> "eof", rows |-> <<>>, fault |-> FALSE, after |-> s]}
               ELSE {})
         \cup {[kind |-> "error", rows |-> <<>>, fault |-> TRUE, after |-> BrokenStream]}

\* ------------------------------------------------------------------ Close
\* r.tp.returnTablet(r.tablet) and r.conn.Close(ctx), made when r.conn # nil.
\* Variant of closedReturns: Close does not return the tablet.
closedReturnsNone == tpReturns

closedReturns == IF conn # 0 THEN [tpReturns EXCEPT ![tablet] = @ + 1] ELSE tpReturns
closedConns == IF conn # 0 THEN [connCloses EXCEPT ![conn] = @ + 1] ELSE connCloses

Close ==
    /\ pc \in {"ready", "closed"}
    /\ closeCalls < MaxCloseCalls
    /\ closeCalls' = closeCalls + 1
    /\ tpReturns' = closedReturns
    /\ connCloses' = closedConns
    /\ pc' = "closed"
    /\ UNCHANGED <<npk, chunk, allowMultipleRetries, query, tablet, conn, fields,
                   output, lastRow, attempt, retryable, err, ctxErr, retryCtxErr,
                   ret, delivered, faults, stats, run>>
    /\ UNCHANGED vdiffVars

\* --------------------------------------------------------------- getTablet
\* Variant of getTabletDialRetryable: a dial error taken as retryable.
getTabletDialRetryableTrue == TRUE

\* The retryable flag getTablet returns with a dial error.

getTabletDialRetryable == FALSE

\* r.getTablet(): returns the tablet held (Close, then the fields set to nil),
\* asks the provider, dials. o is what the provider and the dialer do.
getTablet(o) ==
    LET had == tablet # 0
        R1 == IF had THEN closedReturns ELSE tpReturns
        C1 == IF had THEN closedConns ELSE connCloses
        h == Len(tpReturns) + 1
    IN  /\ fields' = IF had THEN FALSE ELSE fields
        /\ output' = IF had THEN NilStream ELSE output
        /\ CASE o = "provider_err" ->
                  /\ tablet' = IF had THEN 0 ELSE tablet
                  /\ conn' = IF had THEN 0 ELSE conn
                  /\ tpReturns' = R1
                  /\ connCloses' = C1
             [] o = "dial_err" ->
                  /\ tablet' = IF had THEN 0 ELSE tablet
                  /\ conn' = IF had THEN 0 ELSE conn
                  /\ tpReturns' = Append(R1, 0)
                  /\ connCloses' = Append(C1, 0)
             [] o = "ok" ->
                  /\ tablet' = h
                  /\ conn' = h
                  /\ tpReturns' = Append(R1, 0)
                  /\ connCloses' = Append(C1, 0)

\* What getTablet returns: (retryable, err).
getTabletResult(o) ==
    CASE o = "provider_err" -> [retryable |-> TRUE, err |-> "getTablet"]
      [] o = "dial_err"     -> [retryable |-> getTabletDialRetryable, err |-> "dial"]
      [] o = "ok"           -> [retryable |-> FALSE, err |-> "nil"]

\* ------------------------------------------------------------- startStream
\* r.startStream(): generateQuery, execute, one Recv for the fields.
startStream(ok) ==
    /\ query' = generateQuery(PrimaryKeyColumns(npk), chunk, lastRow)
    /\ IF ok
       THEN /\ fields' = TRUE
            /\ output' = [st |-> "open", rows |-> ExecQuery(query', npk)]
            /\ stats' = [stats EXCEPT !.queryStarted = @ + 1]
       ELSE UNCHANGED <<fields, output, stats>>

\* What startStream returns: (retryable, err).
startStreamResult(ok) ==
    IF ok THEN [retryable |-> FALSE, err |-> "nil"]
          ELSE [retryable |-> TRUE, err |-> "startStream"]

\* The locals of tryToConnect and nextWithRetries are gone once they return.
ClearLocals ==
    /\ attempt' = 0
    /\ retryable' = FALSE
    /\ err' = "nil"
    /\ retryCtxErr' = "nil"
    /\ run' = NoRun

\* ------------------------------------------------------------ tryToConnect
\* Variant of ttcGiveUp that allows a third attempt.
ttcGiveUpAfterThird(r, a) == ~r \/ a > 2

\* The retry label: give up on a non-retryable error or after the second attempt.

ttcGiveUp(r, a) == ~r \/ a > 1

TryToConnectGetTablet ==
    /\ pc = "ttc_getTablet"
    /\ attempt' = attempt + 1
    /\ \E o \in {"ok", "provider_err", "dial_err"} :
          /\ Inject(o # "ok")
          /\ getTablet(o)
          /\ retryable' = getTabletResult(o).retryable
          /\ err' = getTabletResult(o).err
          /\ pc' = IF o = "ok" THEN "ttc_startStream" ELSE "ttc_retry"
    /\ UNCHANGED <<npk, chunk, allowMultipleRetries, query, lastRow, ctxErr,
                   retryCtxErr, ret, delivered, stats, closeCalls, run>>
    /\ UNCHANGED vdiffVars

TryToConnectStartStream ==
    /\ pc = "ttc_startStream"
    /\ \E ok \in BOOLEAN :
          /\ Inject(~ok)
          /\ startStream(ok)
          /\ IF ok
             THEN /\ pc' = "ready"
                  /\ ret' = [NoRet EXCEPT !.kind = "reader"]
                  /\ ClearLocals
             ELSE /\ pc' = "ttc_retry"
                  /\ retryable' = startStreamResult(ok).retryable
                  /\ err' = startStreamResult(ok).err
                  /\ UNCHANGED <<ret, attempt, retryCtxErr, run>>
    /\ UNCHANGED <<npk, chunk, allowMultipleRetries, tablet, conn, lastRow,
                   ctxErr, delivered, tpReturns, connCloses, closeCalls>>
    /\ UNCHANGED vdiffVars

TryToConnectRetry ==
    /\ pc = "ttc_retry"
    /\ IF ttcGiveUp(retryable, attempt)
       THEN /\ pc' = "construct_failed"
            /\ ret' = [NoRet EXCEPT !.kind = "error", !.err = err]
            /\ ClearLocals
            /\ UNCHANGED stats
       ELSE /\ pc' = "ttc_getTablet"
            /\ stats' = [stats EXCEPT !.retryCount = @ + 1]
            /\ UNCHANGED <<ret, attempt, retryable, err, retryCtxErr, run>>
    /\ UNCHANGED <<npk, chunk, allowMultipleRetries, query, tablet, conn, fields,
                   output, lastRow, ctxErr, delivered, faults, tpReturns,
                   connCloses, closeCalls>>
    /\ UNCHANGED vdiffVars

\* -------------------------------------------------------------------- Next
\* Variant of lastRowAfter that takes the first row of the result.
lastRowAfterFirstOfBatch(rows) == IF Len(rows) > 0 THEN rows[1] ELSE lastRow

\* The tail of Next: a result with rows moves lastRow to its last row, and
\* (result, err) goes to the caller.

lastRowAfter(rows) == IF Len(rows) > 0 THEN rows[Len(rows)] ELSE lastRow

ReturnResult(o, via) ==
    /\ lastRow' = lastRowAfter(o.rows)
    /\ delivered' = delivered \o o.rows
    /\ ret' = [kind |-> o.kind, err |-> "nil", via |-> via]
    /\ pc' = "ready"
    /\ ClearLocals

\* nextWithRetries returns (nil, err); Next hands it on.
ReturnError(e) ==
    /\ ret' = [kind |-> "error", err |-> e, via |-> "retries"]
    /\ pc' = "ready"
    /\ ClearLocals
    /\ UNCHANGED <<lastRow, delivered>>

\* Variant of NeedsRetries: EOF taken for a failure too.
NeedsRetriesOnEOF(kind) == kind # "rows"

\* err != nil && err != io.EOF, on the result of r.output.Recv() in Next.
NeedsRetries(kind) == kind = "error"

\* Next up to the call of nextWithRetries, whose first lines (the retry
\* context, attempt := 1) are taken with it. A nil r.output is a nil
\* dereference.
ReaderNext ==
    /\ pc = "ready"
    /\ IF output.st = "nil"
       THEN /\ pc' = "panic"
            /\ UNCHANGED <<output, lastRow, delivered, ret, faults, stats, attempt,
                           retryable, err, retryCtxErr, run>>
       ELSE \E o \in RecvOutcomes(output) :
               /\ Inject(o.fault)
               /\ output' = o.after
               /\ IF NeedsRetries(o.kind)
                  THEN /\ stats' = [stats EXCEPT !.queryErrors = @ + 1]
                       /\ attempt' = 1
                       /\ retryCtxErr' = ctxErr
                       /\ run' = [NoRun EXCEPT !.entryTablet = tablet]
                       /\ pc' = "nwr_loop"
                       /\ UNCHANGED <<lastRow, delivered, ret, retryable, err>>
                  ELSE /\ ReturnResult(o, "recv")
                       /\ UNCHANGED stats
    /\ UNCHANGED <<npk, chunk, allowMultipleRetries, query, tablet, conn, fields,
                   ctxErr, tpReturns, connCloses, closeCalls>>
    /\ UNCHANGED vdiffVars

\* --------------------------------------------------------- nextWithRetries
InProtocol == pc \in {"nwr_loop", "nwr_getTablet", "nwr_startStream", "nwr_recv",
                      "nwr_retry", "nwr_select"}

\* Variant of FailoverAtAttempt that fails over from attempt 4 on.
FailoverFromFourth(a) == a > 3

\* if attempt > 2: fail over to a tablet the provider gives.

FailoverAtAttempt(a) == a > 2

\* Variant of GiveUpAfterFirstRetry that fails early one attempt later.
GiveUpAtThird(a, allow) == a = 3 /\ ~allow

\* if attempt == 2 && !r.allowMultipleRetries: fail early.

GiveUpAfterFirstRetry(a, allow) == a = 2 /\ ~allow

\* Variant of ClassifyCtxErr with the two messages exchanged.
ClassifySwapped(e) == IF e = "Canceled" THEN "deadline" ELSE "interrupted"

\* The message chosen for retryCtx.Err().

ClassifyCtxErr(e) == IF e = "DeadlineExceeded" THEN "deadline" ELSE "interrupted"

\* The top of the loop: attempt++.
NwrLoop ==
    /\ pc = "nwr_loop"
    /\ attempt' = attempt + 1
    /\ pc' = IF FailoverAtAttempt(attempt + 1) THEN "nwr_getTablet" ELSE "nwr_startStream"
    /\ UNCHANGED <<npk, chunk, allowMultipleRetries, query, tablet, conn, fields,
                   output, lastRow, retryable, err, ctxErr, retryCtxErr, ret,
                   delivered, faults, stats, tpReturns, connCloses, closeCalls, run>>
    /\ UNCHANGED vdiffVars

NwrGetTablet ==
    /\ pc = "nwr_getTablet"
    /\ \E o \in {"ok", "provider_err", "dial_err"} :
          /\ Inject(o # "ok")
          /\ getTablet(o)
          /\ IF o # "ok" /\ ~getTabletResult(o).retryable
             THEN ReturnError(getTabletResult(o).err)
             ELSE /\ pc' = IF o = "ok" THEN "nwr_startStream" ELSE "nwr_retry"
                  /\ retryable' = getTabletResult(o).retryable
                  /\ err' = getTabletResult(o).err
                  /\ run' = [run EXCEPT !.gets = @ + 1,
                                        !.gotAt = IF o = "ok" THEN attempt ELSE @]
                  /\ UNCHANGED <<ret, lastRow, delivered, attempt, retryCtxErr>>
    /\ UNCHANGED <<npk, chunk, allowMultipleRetries, query, ctxErr, stats,
                   closeCalls>>
    /\ UNCHANGED vdiffVars

NwrStartStream ==
    /\ pc = "nwr_startStream"
    /\ \E ok \in BOOLEAN :
          /\ Inject(~ok)
          /\ startStream(ok)
          /\ IF ~ok /\ ~startStreamResult(ok).retryable
             THEN ReturnError(startStreamResult(ok).err)
             ELSE /\ pc' = IF ok THEN "nwr_recv" ELSE "nwr_retry"
                  /\ retryable' = startStreamResult(ok).retryable
                  /\ err' = startStreamResult(ok).err
                  /\ run' = [run EXCEPT !.starts = @ + 1]
                  /\ UNCHANGED <<ret, lastRow, delivered, attempt, retryCtxErr>>
    /\ UNCHANGED <<npk, chunk, allowMultipleRetries, tablet, conn, ctxErr,
                   tpReturns, connCloses, closeCalls>>
    /\ UNCHANGED vdiffVars

\* result, err = r.output.Recv(): success or end of stream returns through
\* the tail of Next; an error goes to the retry label.
\* Variant of recoveredStats: every recovery counted as a same-tablet restart.
recoveredStatsSameOnly(a) == [stats EXCEPT !.restartsSameTablet = @ + 1]

\* The counter a recovery at attempt a increments.
recoveredStats(a) ==
    IF a = 2
    THEN [stats EXCEPT !.restartsSameTablet = @ + 1]
    ELSE [stats EXCEPT !.restartsDifferentTablet = @ + 1]

NwrRecv ==
    /\ pc = "nwr_recv"
    /\ \E o \in RecvOutcomes(output) :
          /\ Inject(o.fault)
          /\ output' = o.after
          /\ IF o.kind = "error"
             THEN /\ err' = "recv"
                  /\ pc' = "nwr_retry"
                  /\ UNCHANGED <<stats, ret, lastRow, delivered, attempt, retryable,
                                 retryCtxErr, run>>
             ELSE /\ stats' = recoveredStats(attempt)
                  /\ ReturnResult(o, "retries")
    /\ UNCHANGED <<npk, chunk, allowMultipleRetries, query, tablet, conn, fields,
                   ctxErr, tpReturns, connCloses, closeCalls>>
    /\ UNCHANGED vdiffVars

\* The retry label, up to the select.
NwrRetry ==
    /\ pc = "nwr_retry"
    /\ IF GiveUpAfterFirstRetry(attempt, allowMultipleRetries)
       THEN /\ ReturnError("notAllowed")
            /\ UNCHANGED stats
       ELSE /\ stats' = IF tablet # 0
                        THEN [stats EXCEPT !.queryErrors = @ + 1]
                        ELSE stats
            /\ pc' = "nwr_select"
            /\ UNCHANGED <<ret, lastRow, delivered, attempt, retryable, err,
                           retryCtxErr, run>>
    /\ UNCHANGED <<npk, chunk, allowMultipleRetries, query, tablet, conn, fields,
                   output, ctxErr, faults, tpReturns, connCloses, closeCalls>>
    /\ UNCHANGED vdiffVars

\* Variant of NwrCtxDone: only a cancelled retryCtx ends the select.
NwrCtxDoneCancelOnly ==
    /\ pc = "nwr_select"
    /\ retryCtxErr = "Canceled"
    /\ ReturnError(ClassifyCtxErr(retryCtxErr))
    /\ UNCHANGED <<npk, chunk, allowMultipleRetries, query, tablet, conn, fields,
                   output, ctxErr, faults, stats, tpReturns, connCloses, closeCalls>>
    /\ UNCHANGED vdiffVars

\* select, case <-retryCtx.Done().
NwrCtxDone ==
    /\ pc = "nwr_select"
    /\ retryCtxErr # "nil"
    /\ ReturnError(ClassifyCtxErr(retryCtxErr))
    /\ UNCHANGED <<npk, chunk, allowMultipleRetries, query, tablet, conn, fields,
                   output, ctxErr, faults, stats, tpReturns, connCloses, closeCalls>>
    /\ UNCHANGED vdiffVars

\* Variant of NwrBackoff: the pause ends the select although retryCtx is done.
NwrBackoffIgnoresCtx ==
    /\ pc = "nwr_select"
    /\ run' = [run EXCEPT !.sleeps = @ + 1]
    /\ pc' = "nwr_loop"
    /\ UNCHANGED <<npk, chunk, allowMultipleRetries, query, tablet, conn, fields,
                   output, lastRow, attempt, retryable, err, ctxErr, retryCtxErr,
                   ret, delivered, faults, stats, tpReturns, connCloses, closeCalls>>
    /\ UNCHANGED vdiffVars

\* select, case <-time.After(*executeFetchRetryTime): the pause is over.
NwrBackoff ==
    /\ pc = "nwr_select"
    /\ retryCtxErr = "nil"
    /\ run' = [run EXCEPT !.sleeps = @ + 1]
    /\ pc' = "nwr_loop"
    /\ UNCHANGED <<npk, chunk, allowMultipleRetries, query, tablet, conn, fields,
                   output, lastRow, attempt, retryable, err, ctxErr, retryCtxErr,
                   ret, delivered, faults, stats, tpReturns, connCloses, closeCalls>>
    /\ UNCHANGED vdiffVars

\* ------------------------------------------------------------ the contexts
\* The caller cancels r.ctx, or r.ctx's deadline passes; a live retryCtx,
\* derived from r.ctx, is done with the same error.
CtxDone(e) ==
    /\ pc = "ready" \/ InProtocol
    /\ ctxErr = "nil"
    /\ ctxErr' = e
    /\ retryCtxErr' = IF InProtocol /\ retryCtxErr = "nil" THEN e ELSE retryCtxErr
    /\ UNCHANGED <<pc, npk, chunk, allowMultipleRetries, query, tablet, conn, fields,
                   output, lastRow, attempt, retryable, err, ret, delivered, faults,
                   stats, tpReturns, connCloses, closeCalls, run>>
    /\ UNCHANGED vdiffVars

CancelCtx == CtxDone("Canceled")

CtxDeadline == CtxDone("DeadlineExceeded")

\* *retryDuration has passed since nextWithRetries made retryCtx.
RetryTimeout ==
    /\ InProtocol
    /\ retryCtxErr = "nil"
    /\ retryCtxErr' = "DeadlineExceeded"
    /\ UNCHANGED <<pc, npk, chunk, allowMultipleRetries, query, tablet, conn, fields,
                   output, lastRow, attempt, retryable, err, ctxErr, ret, delivered,
                   faults, stats, tpReturns, connCloses, closeCalls, run>>
    /\ UNCHANGED vdiffVars

Next ==
    \/ TryToConnectGetTablet
    \/ TryToConnectStartStream
    \/ TryToConnectRetry
    \/ ReaderNext
    \/ NwrLoop
    \/ NwrGetTablet
    \/ NwrStartStream
    \/ NwrRecv
    \/ NwrRetry
    \/ NwrCtxDone
    \/ NwrBackoff
    \/ CancelCtx
    \/ CtxDeadline
    \/ RetryTimeout
    \/ Close

Spec == Init /\ [][Next]_vars

\* ------------------------------------------------- the reader, scheduled
\* One table and one chunk, with both bounds set.
InitLive ==
    /\ Init
    /\ npk = 1
    /\ chunk = [start |-> 1, end |-> 3]

\* Every call nextWithRetries blocks in returns (the provider, the dialer,
\* the start of the stream, the receive), the timer of the pause fires, and
\* the timeout of retryCtx, made by context.WithTimeout, passes.
SpecLive ==
    /\ InitLive
    /\ [][Next]_vars
    /\ WF_vars(NwrLoop)
    /\ WF_vars(NwrGetTablet)
    /\ WF_vars(NwrStartStream)
    /\ WF_vars(NwrRecv)
    /\ WF_vars(NwrRetry)
    /\ WF_vars(NwrCtxDone)
    /\ WF_vars(NwrBackoff)
    /\ WF_vars(RetryTimeout)

\* ------------------------------------------------ the query as a function
\* Values of the bounded inputs, and rows over them.
Vals == 0..MaxVal
Rows == [1..Len(Columns) -> Vals]

\* Every chunk, resume row and primary-key width within the bounds. A table
\* without primary key has no chunk bounds: they are values of pk[0].
InitQuery ==
    /\ ReaderRest
    /\ pc = "query_input"
    /\ npk \in 0..Len(Columns)
    /\ chunk \in [start : {NULL} \cup Vals, end : {NULL} \cup Vals]
    /\ npk = 0 => chunk.start = NULL /\ chunk.end = NULL
    /\ lastRow \in {<<>>} \cup Rows
    /\ allowMultipleRetries = FALSE
    /\ VDiffIdle

\* r.generateQuery().
GenerateQuery ==
    /\ pc = "query_input"
    /\ query' = generateQuery(PrimaryKeyColumns(npk), chunk, lastRow)
    /\ pc' = "query_done"
    /\ UNCHANGED <<npk, chunk, allowMultipleRetries, tablet, conn, fields, output,
                   lastRow, attempt, retryable, err, ctxErr, retryCtxErr, ret,
                   delivered, faults, stats, tpReturns, connCloses, closeCalls, run>>
    /\ UNCHANGED vdiffVars

NextQuery == GenerateQuery

SpecQuery == InitQuery /\ [][NextQuery]_vars

\* ------------------------------------------------------------------ VDiff2
\* target.GetShard().ShardName(): the targets are keyed by shard.
ShardName(t) == t

ReaderIdle ==
    /\ ReaderZero
    /\ pc = "idle"
    /\ npk = 1
    /\ chunk = [start |-> NULL, end |-> NULL]
    /\ allowMultipleRetries = FALSE

InitVDiff ==
    /\ ReaderIdle
    /\ vpc = [t \in Targets |-> "idle"]
    /\ vcall = "start"
    /\ mu = 0
    /\ Responses = [t \in Targets |-> [set |-> FALSE, resp |-> 0]]
    /\ vlocal = [t \in Targets |-> [resp |-> 0, err |-> FALSE]]
    /\ outputErr = FALSE
    /\ tsErr = FALSE
    /\ vret = [output |-> FALSE, err |-> FALSE]

\* ts, err := wr.buildTrafficSwitcher(...): on an error VDiff2 returns (nil, err).
BuildTrafficSwitcher ==
    /\ vcall = "start"
    /\ \E e \in BOOLEAN :
          /\ tsErr' = e
          /\ IF e
             THEN /\ vcall' = "returned"
                  /\ vret' = [output |-> FALSE, err |-> TRUE]
             ELSE /\ vcall' = "fanout"
                  /\ UNCHANGED vret
    /\ UNCHANGED <<vpc, mu, Responses, vlocal, outputErr>>
    /\ UNCHANGED readerVars

\* ts.ForAllTargets(f): one thread of control per target, all started.
ForAllTargetsStart ==
    /\ vcall = "fanout"
    /\ vpc' = [t \in Targets |-> "call"]
    /\ vcall' = "wait"
    /\ UNCHANGED <<mu, Responses, vlocal, outputErr, tsErr, vret>>
    /\ UNCHANGED readerVars

\* resp, err := wr.tmc.VDiff(ctx, tablet, req): the response of this shard,
\* or nil and an error.
TargetVDiff(t) ==
    /\ vpc[t] = "call"
    /\ \E e \in BOOLEAN :
          vlocal' = [vlocal EXCEPT ![t] = [resp |-> IF e THEN 0 ELSE t, err |-> e]]
    /\ vpc' = [vpc EXCEPT ![t] = "lock"]
    /\ UNCHANGED <<vcall, mu, Responses, outputErr, tsErr, vret>>
    /\ UNCHANGED readerVars

\* Variant: Lock does not wait for the holder of the mutex.
TargetLockNoWait(t) ==
    /\ vpc[t] = "lock"
    /\ mu' = t
    /\ vpc' = [vpc EXCEPT ![t] = "write"]
    /\ UNCHANGED <<vcall, Responses, vlocal, outputErr, tsErr, vret>>
    /\ UNCHANGED readerVars

\* output.mu.Lock()
TargetLock(t) ==
    /\ vpc[t] = "lock"
    /\ mu = 0
    /\ mu' = t
    /\ vpc' = [vpc EXCEPT ![t] = "write"]
    /\ UNCHANGED <<vcall, Responses, vlocal, outputErr, tsErr, vret>>
    /\ UNCHANGED readerVars

\* output.Responses[target.GetShard().ShardName()] = resp
TargetWrite(t) ==
    /\ vpc[t] = "write"
    /\ Responses' = [Responses EXCEPT ![ShardName(t)] =
                                          [set |-> TRUE, resp |-> vlocal[t].resp]]
    /\ vpc' = [vpc EXCEPT ![t] = "unlock"]
    /\ UNCHANGED <<vcall, mu, vlocal, outputErr, tsErr, vret>>
    /\ UNCHANGED readerVars

\* return err, with the deferred output.mu.Unlock()
TargetUnlock(t) ==
    /\ vpc[t] = "unlock"
    /\ mu' = 0
    /\ vpc' = [vpc EXCEPT ![t] = "done"]
    /\ UNCHANGED <<vcall, Responses, vlocal, outputErr, tsErr, vret>>
    /\ UNCHANGED readerVars

\* ForAllTargets returns once every callback has: an error if one of them
\* returned an error.
ForAllTargets == \E t \in Targets : vlocal[t].err

\* The error VDiff2 returns when output.Err # nil: the err of
\* buildTrafficSwitcher, which is in scope there.
ReturnedErr == tsErr

\* output.Err = ts.ForAllTargets(...), and the return of VDiff2.
VDiff2Return ==
    /\ vcall = "wait"
    /\ \A t \in Targets : vpc[t] = "done"
    /\ outputErr' = ForAllTargets
    /\ vret' = IF outputErr'
               THEN [output |-> FALSE, err |-> ReturnedErr]
               ELSE [output |-> TRUE, err |-> FALSE]
    /\ vcall' = "returned"
    /\ UNCHANGED <<vpc, mu, Responses, vlocal, tsErr>>
    /\ UNCHANGED readerVars

NextVDiff ==
    \/ BuildTrafficSwitcher
    \/ ForAllTargetsStart
    \/ \E t \in Targets : TargetVDiff(t)
    \/ \E t \in Targets : TargetLock(t)
    \/ \E t \in Targets : TargetWrite(t)
    \/ \E t \in Targets : TargetUnlock(t)
    \/ VDiff2Return

SpecVDiff == InitVDiff /\ [][NextVDiff]_vars

\* ================================================================== claims
\* a is greater than b in the lexicographic order of the first n columns.
LexGreater(a, b, n) ==
    \E i \in 1..n : a[i] > b[i] /\ \A j \in 1..(i - 1) : a[j] = b[j]

\* The rows of the table whose first primary-key column lies in [start, end).
ChunkSet ==
    {r \in TableRows(npk) : /\ chunk.start # NULL => r[1] >= chunk.start
                            /\ chunk.end # NULL => r[1] < chunk.end}

DeliveredSet == {delivered[i] : i \in 1..Len(delivered)}

\* C1: whatever receive failures the retry protocol recovers from, the rows
\* Next has returned are at every moment a gapless, strictly ascending run of
\* the chunk's rows from its first row on, and once Next has returned end of
\* stream they are all the rows of the chunk: none twice, none skipped.
C1_ExactlyOnce ==
    pc \in {"ready", "closed", "panic"} \/ InProtocol =>
        /\ DeliveredSet \subseteq ChunkSet
        /\ \A i \in 1..(Len(delivered) - 1) :
              LexGreater(delivered[i + 1], delivered[i], npk)
        /\ \A r \in ChunkSet :
              (\E i \in 1..Len(delivered) : LexGreater(delivered[i], r, npk))
                  => r \in DeliveredSet
        /\ ret.kind = "eof" => DeliveredSet = ChunkSet

\* A stream that failed between two rows with the same first key column, was
\* restarted on the same tablet and on another one, and reached its end.
C1_Witness ==
    /\ npk = 2
    /\ ret.kind = "eof"
    /\ stats.restartsSameTablet >= 1
    /\ stats.restartsDifferentTablet >= 1
    /\ Len(delivered) = Cardinality(ChunkSet)
    /\ Len(delivered) >= 3

\* C2: with allowMultipleRetries false the retry protocol makes one restart
\* on the tablet it holds (attempt 2), never asks the provider and never
\* sleeps; when that attempt fails its next step returns an error.
C2_SingleRestart ==
    /\ [](~allowMultipleRetries /\ InProtocol =>
            /\ attempt <= 2
            /\ pc \notin {"nwr_getTablet", "nwr_select"}
            /\ run.gets = 0
            /\ run.sleeps = 0
            /\ tablet = run.entryTablet
            /\ tablet # 0
            /\ run.starts = IF pc \in {"nwr_recv", "nwr_retry"} THEN 1 ELSE 0)
    /\ [][~allowMultipleRetries /\ pc = "nwr_retry" /\ pc' # pc =>
            /\ pc' = "ready"
            /\ ret'.kind = "error"
            /\ ret'.err = "notAllowed"
            /\ Len(tpReturns') = Len(tpReturns)]_vars

\* Next has returned the error of the failed single restart.
C2_Witness ==
    /\ ~allowMultipleRetries
    /\ pc = "ready"
    /\ ret.err = "notAllowed"
    /\ tablet # 0

\* C3: with allowMultipleRetries true, attempt 2 starts the stream on the
\* handle held when the protocol began without a call of the provider, every
\* attempt from 3 on starts the stream only on a handle the provider gave in
\* that attempt, and a failed attempt leads to the next one unless the retry
\* context is done.
C3_FailoverPattern ==
    /\ [](allowMultipleRetries /\ InProtocol =>
            /\ pc = "nwr_getTablet" => attempt >= 3 /\ run.gets = attempt - 3
            /\ pc = "nwr_startStream" /\ attempt = 2 =>
                  run.gets = 0 /\ tablet = run.entryTablet /\ tablet # 0
            /\ pc = "nwr_startStream" /\ attempt >= 3 =>
                  /\ run.gets = attempt - 2
                  /\ run.gotAt = attempt
                  /\ tablet = Len(tpReturns)
                  /\ tablet # run.entryTablet)
    /\ [][allowMultipleRetries =>
            /\ pc = "nwr_retry" /\ pc' # pc => pc' = "nwr_select"
            /\ pc = "nwr_select" /\ pc' = "ready" => retryCtxErr # "nil"
            /\ pc = "nwr_select" /\ retryCtxErr = "nil" /\ pc' # pc =>
                  pc' = "nwr_loop"
            /\ pc = "nwr_loop" /\ pc' # pc =>
                  /\ attempt' = attempt + 1
                  /\ pc' = IF attempt' = 2 THEN "nwr_startStream" ELSE "nwr_getTablet"]_vars

\* The fourth attempt starts its stream on the second handle obtained by failover.
C3_Witness ==
    /\ allowMultipleRetries
    /\ pc = "nwr_startStream"
    /\ attempt = 4
    /\ run.gets = 2
    /\ run.sleeps = 2

\* C4: construction makes at most two attempts; it retries only after a
\* retryable failure of the first attempt, fails after a dial failure or a
\* failure of the second attempt, and returns a reader only from an attempt
\* whose open and start both succeeded.
C4_Construction ==
    /\ [](/\ pc \in {"ttc_getTablet", "ttc_startStream", "ttc_retry"} =>
                attempt <= (IF pc = "ttc_getTablet" THEN 1 ELSE 2)
          /\ stats.retryCount <= 1
          /\ pc = "construct_failed" => ret.kind = "error")
    /\ [][/\ pc = "ttc_retry" /\ (err = "dial" \/ attempt = 2) =>
                pc' = "construct_failed"
          /\ pc = "ttc_retry" /\ err # "dial" /\ attempt = 1 =>
                pc' = "ttc_getTablet" /\ stats'.retryCount = 1
          /\ pc' = "ready" /\ pc \in {"ttc_getTablet", "ttc_startStream", "ttc_retry"} =>
                /\ pc = "ttc_startStream"
                /\ tablet # 0 /\ conn = tablet
                /\ tablet' = tablet /\ conn' = conn
                /\ fields' /\ output'.st = "open"
                /\ ret'.kind = "reader"]_vars

\* Construction failed at its second attempt.
C4_Witness ==
    /\ pc = "construct_failed"
    /\ stats.retryCount = 1
    /\ ret.kind = "error"

\* C5: when the VDiff call of a target returned an error, VDiff2 returns a
\* non-nil error, every callback having completed.
C5_ErrorReported ==
    vcall = "returned" /\ (\E t \in Targets : vlocal[t].err) =>
        /\ vret.err
        /\ \A t \in Targets : vpc[t] = "done"

\* C6: Close called twice or more returns the handle and closes the
\* connection once.
C6_CloseIdempotent ==
    closeCalls >= 2 =>
        \A h \in 1..Len(tpReturns) : tpReturns[h] <= 1 /\ connCloses[h] <= 1

\* C7: the error returned at the select when the retry context is done says
\* "interrupted" exactly when the context was cancelled and names the
\* deadline exactly when a deadline passed; a cancel of the caller's context
\* during the pause is what the retry context reports.
C7_CtxErrClass ==
    /\ [](ret.err = "interrupted" => ctxErr = "Canceled")
    /\ [][/\ pc = "nwr_select" /\ pc' = "ready" =>
                /\ ret'.kind = "error"
                /\ retryCtxErr = "Canceled" => ret'.err = "interrupted"
                /\ retryCtxErr = "DeadlineExceeded" => ret'.err = "deadline"
          /\ pc = "nwr_select" /\ retryCtxErr = "nil" /\ ctxErr = "nil"
               /\ ctxErr' # "nil" => retryCtxErr' = ctxErr'
          /\ InProtocol /\ retryCtxErr # "nil" /\ pc' # "ready" =>
                retryCtxErr' = retryCtxErr]_vars

\* Next has returned the interrupted error after a cancel.
C7_Witness ==
    /\ pc = "ready"
    /\ ret.err = "interrupted"
    /\ ctxErr = "Canceled"

\* C8: a dial failure in the getTablet of an attempt of the retry protocol
\* returns from Next in that step with that error; no step of the protocol
\* (retry label, pause, further attempt) runs with it.
C8_NonRetryableAborts ==
    /\ [](InProtocol => err # "dial")
    /\ [][pc = "nwr_getTablet" /\ Len(tpReturns') > Len(tpReturns) /\ conn' = 0 =>
            /\ pc' = "ready"
            /\ ret' = [kind |-> "error", err |-> "dial", via |-> "retries"]
            /\ run' = NoRun]_vars

\* Next has returned the dial error of a failover.
C8_Witness ==
    /\ pc = "ready"
    /\ ret.err = "dial"
    /\ ret.via = "retries"
    /\ tablet = 0

\* The lower-bound and upper-bound terms a query must carry.
StartTerm ==
    [lhs |-> <<EscapeID(Columns[1])>>, op |-> ">=", rhs |-> <<chunk.start>>, tuple |-> FALSE]
EndTerm ==
    [lhs |-> <<EscapeID(Columns[1])>>, op |-> "<", rhs |-> <<chunk.end>>, tuple |-> FALSE]

\* Number of clauses of the resume predicate.
ResumeLen == IF npk > 1 THEN 2 ELSE 1

\* C9: the clauses of the generated query are, in order: pk[0] >= start when
\* there is no resume row and the chunk has a start, or the resume predicate
\* alone when there is a resume row; then pk[0] < end when the chunk has an
\* end. WHERE is written iff there is a clause; ORDER BY lists the
\* primary-key columns iff there is one.
C9_WhereClauses ==
    pc = "query_done" =>
        LET lower == IF lastRow = <<>>
                     THEN IF chunk.start # NULL THEN <<StartTerm>> ELSE <<>>
                     ELSE greaterThanTupleWhereClause(PrimaryKeyColumns(npk), lastRow)
            upper == IF chunk.end # NULL THEN <<EndTerm>> ELSE <<>>
        IN  /\ query.clauses = lower \o upper
            /\ lastRow # <<>> => Len(lower) = ResumeLen
            /\ query.where <=> query.clauses # <<>>
            /\ query.orderBy = [i \in 1..npk |-> EscapeID(Columns[i])]

\* A restart query of a chunk bounded on both sides, two key columns.
C9_Witness ==
    /\ pc = "query_done"
    /\ npk = 2
    /\ lastRow # <<>>
    /\ chunk.start # NULL
    /\ chunk.end # NULL
    /\ Len(query.clauses) = 3

\* C10: for 1, 2 and 3 primary-key columns the resume predicate of the
\* generated query admits a row exactly when its key is lexicographically
\* greater than the resume row; the first-column clause rejects no row the
\* tuple comparison admits, and the resume row itself is rejected.
C10_ResumePredicate ==
    pc = "query_done" /\ lastRow # <<>> /\ npk >= 1 =>
        LET gt == SubSeq(query.clauses, 1, ResumeLen)
            Admits(row) == \A i \in 1..Len(gt) : EvalClause(gt[i], row)
        IN  /\ \A row \in Rows : Admits(row) <=> LexGreater(row, lastRow, npk)
            /\ \A row \in Rows :
                  EvalClause(gt[Len(gt)], row) => EvalClause(gt[1], row)
            /\ ~Admits(lastRow)

\* A resume predicate over three key columns.
C10_Witness ==
    /\ pc = "query_done"
    /\ npk = 3
    /\ lastRow = <<1, 1, 1>>
    /\ Len(query.clauses) >= 2

\* Targets between Lock and Unlock: the map write is theirs.
InCritical == {t \in Targets : vpc[t] \in {"write", "unlock"}}

\* C11: in every interleaving of the per-shard callbacks the writes of the
\* Responses map never overlap (at most one callback is between Lock and
\* Unlock, and it holds the mutex), an entry is only ever the response of the
\* VDiff call of the shard it is keyed by, and once all callbacks are done
\* there is exactly one entry for every target shard.
C11_ResponsesComplete ==
    /\ Cardinality(InCritical) <= 1
    /\ \A t \in InCritical : mu = t
    /\ \A t \in Targets :
          Responses[ShardName(t)].set =>
              /\ vpc[t] \in {"unlock", "done"}
              /\ Responses[ShardName(t)].resp = vlocal[t].resp
    /\ (vcall \in {"wait", "returned"} /\ \A t \in Targets : vpc[t] = "done") =>
          \A t \in Targets :
              /\ Responses[ShardName(t)].set
              /\ Responses[ShardName(t)].resp = vlocal[t].resp

\* VDiff2 has returned after all callbacks wrote their entry, at least two of
\* them a response.
C11_Witness ==
    /\ vcall = "returned"
    /\ \A t \in Targets : vpc[t] = "done" /\ Responses[ShardName(t)].set
    /\ \E t, u \in Targets : t # u /\ Responses[t].resp = t /\ Responses[u].resp = u

\* Handles the provider gave out that were never returned to it.
Unreturned == {h \in 1..Len(tpReturns) : tpReturns[h] = 0}

\* A step of getTablet, in construction or in a failover.
GetTabletStep == pc \in {"ttc_getTablet", "nwr_getTablet"} /\ pc' # pc

\* C12: at every point at most one handle obtained from the provider is not
\* returned, and when getTablet asks the provider for a replacement the
\* handle held before has been returned and its connection closed.
C12_OneHandle ==
    /\ [](Cardinality(Unreturned) <= 1)
    /\ [][GetTabletStep /\ tablet # 0 =>
              /\ tpReturns'[tablet] >= 1
              /\ connCloses'[conn] >= 1
              /\ \A h \in 1..Len(tpReturns) : tpReturns'[h] >= 1]_vars

\* A failover replaced handle 1 by handle 2 and the reader is back with
\* the caller.
C12_Witness ==
    /\ pc = "ready"
    /\ tablet = 2
    /\ tpReturns = <<1, 0>>
    /\ connCloses = <<1, 0>>
    /\ stats.restartsDifferentTablet >= 1

\* C13: lastRow only moves forward, every new value being greater than the
\* one before in the lexicographic order of the primary key columns, and it
\* stays inside the chunk: when lastRow and chunk.end are both set, the first
\* primary key value of lastRow is below chunk.end (and not below a set
\* chunk.start), so the resume query's lower bound is below its upper bound.
C13_LastRowForward ==
    /\ [](lastRow # <<>> =>
              /\ chunk.end # NULL => lastRow[1] < chunk.end
              /\ chunk.start # NULL => lastRow[1] >= chunk.start)
    /\ [][lastRow' # lastRow =>
              /\ lastRow' # <<>>
              /\ lastRow # <<>> => LexGreater(lastRow', lastRow, npk)]_vars

\* lastRow moved at least twice, the last time after a restart, in a chunk
\* with an end.
C13_Witness ==
    /\ pc = "ready"
    /\ chunk.end # NULL
    /\ Len(delivered) >= 2
    /\ lastRow = delivered[Len(delivered)]
    /\ ret.via = "retries"
    /\ ret.kind = "rows"
    /\ stats.restartsSameTablet + stats.restartsDifferentTablet >= 1

\* A step in which Next hands io.EOF to the caller, from its own receive or
\* from the receive of a retry attempt. (A step of the caller's context in
\* "ready" fits too, and changes none of what is compared below.)
EOFReturned ==
    /\ pc \in {"ready", "nwr_recv"}
    /\ pc' = "ready"
    /\ ret'.kind = "eof"

\* C14: the retry protocol is entered only from Next and only by a receive
\* that failed (the stream is broken afterwards, EOF leaves it open); a
\* receive that returns EOF, in Next or in a retry attempt, is returned
\* without an error, asks the provider for nothing, starts no stream and
\* leaves tablet, connection, stream, query, lastRow and the handles alone;
\* in Next it changes no counter at all.
C14_RetryOnlyOnError ==
    /\ [][~InProtocol /\ InProtocol' =>
              /\ pc = "ready"
              /\ output'.st = "broken"
              /\ output.st = "broken" \/ faults' = faults + 1]_vars
    /\ [][EOFReturned =>
              /\ ret'.err = "nil"
              /\ UNCHANGED <<tablet, conn, output, fields, query, lastRow, delivered,
                             tpReturns, connCloses>>
              /\ stats'.queryStarted = stats.queryStarted
              /\ stats'.queryErrors = stats.queryErrors
              /\ pc = "ready" => stats' = stats]_vars

\* EOF was returned by the receive of a retry attempt: the failed receive
\* of Next entered the protocol and the restarted stream had no rows left.
C14_Witness ==
    /\ pc = "ready"
    /\ ret.kind = "eof"
    /\ ret.via = "retries"
    /\ stats.queryErrors >= 1
    /\ output.st = "open"

\* A step in which nextWithRetries returns.
ProtocolReturns == InProtocol /\ pc' = "ready"

\* C17: a run of the retry protocol that returns a result increments exactly
\* one recovery counter by one, the same-tablet counter if and only if it
\* recovered at attempt 2 and the different-tablet counter if and only if at
\* a later attempt; a run that returns an error increments neither, and no
\* other step changes either counter.
C17_RecoveryCounters ==
    [][/\ (ProtocolReturns /\ ret'.kind # "error" /\ attempt = 2) =>
              /\ stats'.restartsSameTablet = stats.restartsSameTablet + 1
              /\ stats'.restartsDifferentTablet = stats.restartsDifferentTablet
       /\ (ProtocolReturns /\ ret'.kind # "error" /\ attempt > 2) =>
              /\ stats'.restartsDifferentTablet = stats.restartsDifferentTablet + 1
              /\ stats'.restartsSameTablet = stats.restartsSameTablet
       /\ (ProtocolReturns /\ ret'.kind # "error") => attempt >= 2
       /\ ~(ProtocolReturns /\ ret'.kind # "error") =>
              /\ stats'.restartsSameTablet = stats.restartsSameTablet
              /\ stats'.restartsDifferentTablet = stats.restartsDifferentTablet]_vars

\* One run recovered on the held tablet and another after a failover.
C17_Witness ==
    /\ pc = "ready"
    /\ stats.restartsSameTablet = 1
    /\ stats.restartsDifferentTablet = 1
    /\ ret.via = "retries"
    /\ ret.kind # "error"

\* A step that starts the next attempt of the retry protocol.
AttemptStarts == pc = "nwr_loop" /\ pc' # pc

\* C16, as stated: with the failed receive of Next counted as attempt 1,
\* every failed attempt was followed by one pause when the next attempt
\* starts, so as many pauses as failed attempts.
C16_PauseAfterEveryAttempt == [][AttemptStarts => run.sleeps = attempt]_vars

\* C16, amended: attempt 2 starts at once after the failed receive of Next
\* (attempt 1), with no pause; every failed attempt from attempt 2 on that is
\* retried goes to the select, which is left either after one pause towards
\* the next attempt, the retry context not being done, or, the retry context
\* being done, by returning the context's error with no further attempt.
C16_PauseBetweenRetries ==
    /\ [][AttemptStarts => run.sleeps = attempt - 1]_vars
    /\ [][pc' = "nwr_loop" /\ pc # pc' =>
              \/ pc = "ready" /\ attempt' = 1 /\ run'.sleeps = 0
              \/ pc = "nwr_select" /\ attempt >= 2]_vars
    /\ [][pc = "nwr_retry" /\ pc' # pc =>
              \/ pc' = "nwr_select"
              \/ pc' = "ready" /\ attempt = 2 /\ ~allowMultipleRetries]_vars
    /\ [][pc = "nwr_select" /\ pc' # pc =>
              IF retryCtxErr = "nil"
              THEN /\ pc' = "nwr_loop"
                   /\ run'.sleeps = run.sleeps + 1
                   /\ attempt' = attempt
              ELSE /\ pc' = "ready"
                   /\ ret'.kind = "error"
                   /\ ret'.err \in {"deadline", "interrupted"}]_vars

\* Attempts 2 and 3 failed and each was followed by a pause; attempt 4 is
\* about to start.
C16_Witness ==
    /\ pc = "nwr_loop"
    /\ attempt = 3
    /\ run.sleeps = 2

\* C18: when construction has failed, or Next has returned the error of a
\* failed dial, every handle obtained from the provider has been returned.
C18_NoHandleLeaked ==
    (\/ pc = "construct_failed"
     \/ pc = "ready" /\ ret.kind = "error" /\ ret.err = "dial") =>
        Unreturned = {}

\* C19: whenever the caller may call Next, after construction and after
\* every return of Next, an error from the retry protocol included, the
\* reader has a stream, a connection and a tablet.
C19_StreamHeld ==
    pc = "ready" => /\ output.st # "nil"
                    /\ conn # 0
                    /\ tablet # 0

\* C15: a call of Next that entered the retry protocol returns, whatever
\* fails on the way, provided the calls it blocks in return and the retry
\* context becomes done; and once the select has seen the retry context
\* done, the call returns an error without starting another attempt.
C15_NextReturns ==
    /\ InProtocol ~> pc = "ready"
    /\ [][pc = "nwr_select" /\ retryCtxErr # "nil" /\ pc' # pc =>
              /\ pc' = "ready"
              /\ ret'.kind = "error"
              /\ ret'.via = "retries"
              /\ UNCHANGED <<tablet, conn, output, stats, tpReturns, faults>>]_vars

\* Next returned because the timeout of the retry context passed while
\* every attempt, a failover attempt included, had failed.
C15_Witness ==
    /\ pc = "ready"
    /\ ret.kind = "error"
    /\ ret.err = "deadline"
    /\ faults = MaxFaults
    /\ output.st # "open"

====
